---- MODULE Spec2Model ----
(***************************************************************************)
(* Model of the label microservice of kubeflow/Code-Intelligence:          *)
(*   - py/label_microservice/worker.py: the Pub/Sub consumer (Worker)      *)
(*     whose callback loads the repo configuration, downloads the model,   *)
(*     predicts labels, labels/comments the issue and acknowledges;        *)
(*   - py/label_microservice/issue_label_predictor.py: the model registry  *)
(*     and the predict / predict_labels_for_issue / predict_labels_for_data*)
(*     entry points;                                                       *)
(*   - py/label_microservice/mlp.py: MLPWrapper.find_probability_thresholds*)
(*     which calibrates one probability threshold per label on the         *)
(*     held-out partition.                                                 *)
(* Probabilities and thresholds are integers on the scale 0..MaxProb.      *)
(* An optional value (Python None or a value) is a sequence of length 0    *)
(* or 1.                                                                   *)
(***************************************************************************)
EXTENDS Integers, Sequences, FiniteSets, TLC

\* ------------------------------------------------------------------ bounds
NumMsgs == 2          \* messages published on the topic
MaxDeliveries == 2    \* deliveries of one message that are followed
NumLabels == 2        \* labels of a repo-specific model
MaxProb == 1          \* probabilities are k / MaxProb, k in 0..MaxProb
MaxSamples == 2       \* rows of the held-out partition of the calibrator

Msgs == 1..NumMsgs

\* ------------------------------------------------------- optional values
None == <<>>
Some(v) == <<v>>
IsNone(o) == o = <<>>

\* ------------------------------------------------------- worker.py state
VARIABLES
  subscriber,          \* "idle" | "running": the streaming pull of subscribe
  attributes,          \* message.attributes of each message
  pc,                  \* position of each message's callback
  deliveries,          \* how many times the callback was invoked per message
  acks,                \* how many times message.ack() was called per message
  config,              \* self.config: None until load_yaml, then the RepoConfig
  error,               \* local: the exception raised, None or Some(origin)
  logged,              \* number of deliveries whose exception was logged
  embedding_status,    \* local: r.status_code (0 before the request)
  clf_invoked,         \* local: invocations of the classifier in this delivery
  label_probabilities, \* local of predict_labels, until the threshold loop
  label_thresholds,    \* local of predict_labels
  predictions,         \* local of callback: {'labels', 'probabilities'}
  downloaded,          \* the RepoConfig whose model and label files this
                       \* callback has downloaded to their local paths
  issue_labels,        \* GitHub: labels the running callback added to its issue
  comments,            \* GitHub: comments the running callback posted on it
  repo_yaml,           \* local of filter_specified_labels (yaml): what get_yaml
                       \* returned for the labels just put on the issue
  \* ------------------------------------ issue_label_predictor.py state
  models,              \* self._models: model key -> model
  request,             \* the call in progress: entry point, arguments, and
                       \* what the collaborators answer
  response,            \* what the call returned or raised
  \* ------------------------------------------------------ mlp.py state
  mlp,                 \* the MLPWrapper: its floors and calibration tables
  calibration          \* find_probability_thresholds: its position, the
                       \* held-out data and the locals of its loop

vars == <<subscriber, attributes, pc, deliveries, acks, config, error, logged,
          embedding_status, clf_invoked, label_probabilities,
          label_thresholds, predictions, downloaded, issue_labels, comments,
          repo_yaml,
          models, request, response, mlp, calibration>>

locals == <<embedding_status, clf_invoked, label_probabilities,
            label_thresholds, predictions, downloaded>>
github == <<issue_labels, comments>>
worker == <<subscriber, attributes, pc, deliveries, acks, config, error,
            logged, locals, github, repo_yaml>>
predictor == <<models, request, response>>
calibrator == <<mlp, calibration>>

\* --------------------------------------------------------------- inputs
ProbValues == 0..MaxProb
StatusCodes == {200, 404, 500}
AttributeKeys == {"installation_id", "repo_owner", "repo_name", "issue_num"}

FullAttributes(name, num) ==
  [k \in AttributeKeys |->
     CASE k = "installation_id" -> "10000"
       [] k = "repo_owner" -> "kubeflow"
       [] k = "repo_name" -> name
       [] k = "issue_num" -> num]

Without(f, key) == [k \in (DOMAIN f) \ {key} |-> f[k]]

\* The events the upstream publishes: a well formed one, one of another
\* repository whose issue_num is not a number, and one that lacks an
\* attribute.
MessageAttributes ==
  { FullAttributes("examples", "1"),
    FullAttributes("kfctl", "abc"),
    Without(FullAttributes("examples", "2"), "issue_num") }

HasAllAttributes(m) == AttributeKeys \subseteq DOMAIN attributes[m]

\* int(issue_num) succeeds
IsInt(s) == s \in {"1", "2"}

RepoConfig(repo_owner, repo_name) ==
  [repo_owner |-> repo_owner, repo_name |-> repo_name]

LabelName(i) == "label" \o ToString(i + 1)
label_names == [i \in 1..NumLabels |-> LabelName(i - 1)]
Thresholds == {None} \cup {Some(v) : v \in ProbValues}
ThresholdTables == [0..(NumLabels - 1) -> Thresholds]
ProbabilityVectors == [1..NumLabels -> ProbValues]

EmptyPredictions == [labels |-> <<>>, probabilities |-> <<>>]

InCallback == {"load_yaml", "download", "predict", "load_label_columns",
               "return_predictions", "add_labels", "log", "except", "acking"}

\* ------------------------------------- issue_label_predictor.py: registry
UNIVERSAL_MODEL_NAME == "universal"
KUBEFLOW_AUTOML_MODEL ==
  "projects/976279526634/locations/us-central1/models/TCN654213816573231104"

\* Python truthiness of an optional string: None and "" are falsy.
TruthyStr(o) == ~IsNone(o) /\ o[1] # ""

\* _combined_model_name(org, repo=None); repo is an optional string.
CombinedModelName(org, repo) ==
  IF TruthyStr(repo)
    THEN org \o "/" \o repo[1] \o "_combined"
    ELSE org \o "_combined"

\* d[k] = v on a dict
Put(d, k, v) == [x \in (DOMAIN d) \cup {k} |-> IF x = k THEN v ELSE d[x]]

UniversalKindLabelModel ==
  [kind |-> "universal", model_name |-> "", models |-> <<>>]
AutoMLModel(name) == [kind |-> "automl", model_name |-> name, models |-> <<>>]
CombinedLabelModels(constituents) ==
  [kind |-> "combined", model_name |-> "", models |-> constituents]

\* The orgs that _load_models loops over.
OrgsWithModels == <<"kubeflow">>

\* The org model first, the universal model after it.
OrgCombinedModelsReversed(universal, org_model) == <<org_model, universal>>

\* The models argument of the combined model of an org.
OrgCombinedModels(universal, org_model) == <<universal, org_model>>

\* One iteration of the loop of _load_models.
LoadOrg(d, org) ==
  LET org_model == AutoMLModel(KUBEFLOW_AUTOML_MODEL)
      with_org == Put(d, org, org_model)
      combined == CombinedLabelModels(
                    OrgCombinedModels(with_org["universal"], org_model))
  IN Put(with_org, CombinedModelName(org, None), combined)

RECURSIVE LoadOrgs(_, _)
LoadOrgs(d, orgs) ==
  IF orgs = <<>> THEN d ELSE LoadOrgs(LoadOrg(d, Head(orgs)), Tail(orgs))

\* __init__ and _load_models: the registry after construction.
LoadModels ==
  LoadOrgs(Put(<<>>, UNIVERSAL_MODEL_NAME, UniversalKindLabelModel),
           OrgsWithModels)

\* ------------------------------------------------- the models' predictions
PredictorLabels == {"bug", "feature"}
ProbabilityMaps == UNION {[S -> ProbValues] : S \in SUBSET PredictorLabels}

\* A combined model merges the maps of its constituents in order: a later
\* constituent overrides an earlier one on a label both emit.
CombinePredictions(left, right) ==
  [l \in (DOMAIN left) \cup (DOMAIN right) |->
     IF l \in DOMAIN right THEN right[l] ELSE left[l]]

RECURSIVE PredictIssueLabels(_, _)
RECURSIVE CombineAll(_, _, _)
CombineAll(constituents, outputs, acc) ==
  IF constituents = <<>>
    THEN acc
    ELSE CombineAll(Tail(constituents), outputs,
           CombinePredictions(acc,
                              PredictIssueLabels(Head(constituents), outputs)))

\* model.predict_issue_labels(...): outputs gives what the universal and the
\* AutoML classifier answer for the issue of this request.
PredictIssueLabels(model, outputs) ==
  CASE model.kind = "universal" -> outputs.universal
    [] model.kind = "automl" -> outputs.automl
    [] model.kind = "combined" -> CombineAll(model.models, outputs, <<>>)

\* The classifiers a model invokes, in order.
RECURSIVE Invocations(_)
RECURSIVE InvocationsAll(_)
InvocationsAll(constituents) ==
  IF constituents = <<>>
    THEN <<>>
    ELSE Invocations(Head(constituents)) \o InvocationsAll(Tail(constituents))
Invocations(model) ==
  IF model.kind = "combined"
    THEN InvocationsAll(model.models)
    ELSE <<model.kind>>

\* ------------------------------------------------------ requests, responses
NoError == [type |-> "", message |-> ""]
Exception(type, message) == [type |-> type, message |-> message]

Response(path, model_name, fetched, invoked, result, err) ==
  [path |-> path, model_name |-> model_name, fetched |-> fetched,
   invoked |-> invoked, result |-> result, error |-> err]

NoRequest ==
  [op |-> "", data |-> <<>>,
   outputs |-> [universal |-> <<>>, automl |-> <<>>, outcome |-> "ok"]]
NoResponse == Response("", None, FALSE, <<>>, None, NoError)

CollaboratorOutputs ==
  [universal : ProbabilityMaps, automl : ProbabilityMaps,
   outcome : {"ok", "get_issue_text raises", "model raises"}]

\* The message without the f prefix of the string literal.
NoModelNamedLiteral(model_name) == "No model named {model_name}"

NoModelNamed(model_name) == "No model named " \o model_name

\* predict_labels_for_data(model_name, org, repo, title, body, context)
PredictLabelsForData(model_name, org, repo, title, body, outputs, path, fetched) ==
  IF model_name \notin DOMAIN models
    THEN Response(path, Some(model_name), fetched, <<>>, None,
                  Exception("ValueError", NoModelNamed(model_name)))
    ELSE IF outputs.outcome = "model raises"
      THEN Response(path, Some(model_name), fetched,
                    <<Head(Invocations(models[model_name]))>>, None,
                    Exception("Exception", "predict_issue_labels"))
      ELSE Response(path, Some(model_name), fetched,
                    Invocations(models[model_name]),
                    Some(PredictIssueLabels(models[model_name], outputs)),
                    NoError)

\* A resolution that forgets the org wide model.
ResolveModelSkipsOrg(org, repo) ==
  LET repo_model == CombinedModelName(org, Some(repo))
  IN IF repo_model \in DOMAIN models THEN repo_model
     ELSE UNIVERSAL_MODEL_NAME

\* Lines 113-122: the model of an issue when no model_name is given.
ResolveModel(org, repo) ==
  LET org_model == CombinedModelName(org, None)
      repo_model == CombinedModelName(org, Some(repo))
  IN IF repo_model \in DOMAIN models THEN repo_model
     ELSE IF org_model \in DOMAIN models THEN org_model
     ELSE UNIVERSAL_MODEL_NAME

\* predict_labels_for_issue(org, repo, issue_number, model_name=None);
\* model_name is an optional string.
PredictLabelsForIssue(org, repo, issue_number, model_name, outputs, path) ==
  LET name == IF ~TruthyStr(model_name)
                THEN ResolveModel(org, repo)
                ELSE model_name[1]
  IN IF outputs.outcome = "get_issue_text raises"
       THEN Response(path, Some(name), FALSE, <<>>, None,
                     Exception("Exception", "get_issue_text"))
       ELSE PredictLabelsForData(name, org, repo, "title", <<"body">>,
                                 outputs, path, TRUE)

\* ------------------------------------------------------------- predict
text_keys == <<"title", "text", "model_name">>
issue_keys == <<"repo_owner", "repo_name", "issue_num">>

\* A check that is satisfied by any one of the keys.
DictHasAnyKey(d, keys) == \E i \in 1..Len(keys) : keys[i] \in DOMAIN d

\* _dict_has_keys(d, keys)
DictHasKeys(d, keys) == \A i \in 1..Len(keys) : keys[i] \in DOMAIN d

\* d.get(k)
DictGet(d, k) == IF k \in DOMAIN d THEN Some(d[k]) ELSE None

\* The first of keys whose subscript d[k] raises a KeyError, if any.
RECURSIVE FirstMissing(_, _)
FirstMissing(d, keys) ==
  IF keys = <<>> THEN None
  ELSE IF Head(keys) \notin DOMAIN d THEN Some(Head(keys))
  ELSE FirstMissing(d, Tail(keys))

\* ",".join(strings)
RECURSIVE Join(_)
Join(strings) ==
  IF strings = <<>> THEN ""
  ELSE IF Len(strings) = 1 THEN strings[1]
  ELSE strings[1] \o "," \o Join(Tail(strings))

PayloadKeys ==
  <<"title", "text", "model_name", "repo_owner", "repo_name", "issue_num">>

\* data.keys(), in the order of PayloadKeys
Keys(data) == SelectSeq(PayloadKeys, LAMBDA k : k \in DOMAIN data)

MissingKeysMessage(data) ==
  "Data is missing required keys; got " \o Join(Keys(data)) \o "; want ["
    \o Join(text_keys) \o "] or [" \o Join(issue_keys) \o "]"

\* Python binds the positional arguments of a call to
\* predict_labels_for_data(self, model_name, org, repo, title, body,
\* context=None): fewer than five is a TypeError raised before the body runs.
CallPredictLabelsForData(args, outputs, path) ==
  IF Len(args) < 5
    THEN Response(path, None, FALSE, <<>>, None,
                  Exception("TypeError",
                            "predict_labels_for_data() missing arguments"))
    ELSE PredictLabelsForData(args[1], args[2], args[3], args[4], args[5],
                              outputs, path, FALSE)

KeyError(path, key) ==
  Response(path, None, FALSE, <<>>, None, Exception("KeyError", key))

\* predict(data)
PredictResponse(data, outputs) ==
  IF DictHasKeys(data, text_keys)
    THEN IF ~IsNone(FirstMissing(data, <<"model_name", "title", "text">>))
           THEN KeyError("text",
                  FirstMissing(data, <<"model_name", "title", "text">>)[1])
           ELSE CallPredictLabelsForData(
                  <<data["model_name"], data["title"], data["text"]>>,
                  outputs, "text")
  ELSE IF DictHasKeys(data, issue_keys)
    THEN IF ~IsNone(FirstMissing(data, issue_keys))
           THEN KeyError("issue", FirstMissing(data, issue_keys)[1])
           ELSE PredictLabelsForIssue(data["repo_owner"], data["repo_name"],
                                      data["issue_num"],
                                      DictGet(data, "model_name"),
                                      outputs, "issue")
  ELSE Response("", None, FALSE, <<>>, None,
                Exception("ValueError", MissingKeysMessage(data)))

\* ------------------------------------------------ inputs of the predictor
PayloadValues(k) ==
  CASE k = "title" -> {"some title"}
    [] k = "text" -> {"some text"}
    [] k = "model_name" -> {"universal", "kubeflow_combined", "nope", ""}
    [] k = "repo_owner" -> {"kubeflow", "other"}
    [] k = "repo_name" -> {"examples", ""}
    [] k = "issue_num" -> {"1"}

RECURSIVE PayloadsOver(_)
PayloadsOver(keys) ==
  IF keys = <<>>
    THEN {<<>>}
    ELSE LET rest == PayloadsOver(Tail(keys))
         IN rest \cup {Put(d, Head(keys), v) :
                         d \in rest, v \in PayloadValues(Head(keys))}

\* Every payload over the six keys, complete or not.
Payloads == PayloadsOver(PayloadKeys)

\* ------------------------------------------------------------------ Init
Init ==
  /\ subscriber = "idle"
  /\ attributes \in [Msgs -> MessageAttributes]
  /\ pc = [m \in Msgs |-> "queued"]
  /\ deliveries = [m \in Msgs |-> 0]
  /\ acks = [m \in Msgs |-> 0]
  /\ config = None
  /\ error = [m \in Msgs |-> None]
  /\ logged = [m \in Msgs |-> 0]
  /\ embedding_status = [m \in Msgs |-> 0]
  /\ clf_invoked = [m \in Msgs |-> 0]
  /\ label_probabilities = [m \in Msgs |-> <<>>]
  /\ label_thresholds = [m \in Msgs |-> <<>>]
  /\ predictions = [m \in Msgs |-> EmptyPredictions]
  /\ downloaded = [m \in Msgs |-> None]
  /\ issue_labels = [m \in Msgs |-> <<>>]
  /\ comments = [m \in Msgs |-> <<>>]
  /\ repo_yaml = [m \in Msgs |-> None]
  /\ models = <<>>
  /\ request = NoRequest
  /\ response = NoResponse
  /\ mlp = None
  /\ calibration = None

\* The locals of a callback that has not started.
ClearLocals(m) ==
  /\ embedding_status' = [embedding_status EXCEPT ![m] = 0]
  /\ clf_invoked' = [clf_invoked EXCEPT ![m] = 0]
  /\ label_probabilities' = [label_probabilities EXCEPT ![m] = <<>>]
  /\ label_thresholds' = [label_thresholds EXCEPT ![m] = <<>>]
  /\ predictions' = [predictions EXCEPT ![m] = EmptyPredictions]
  /\ downloaded' = [downloaded EXCEPT ![m] = None]

\* ------------------------------------------------------------ subscribe
\* A limit that lets two messages be outstanding.
max_messages_two == 2

\* The flow control limit of the subscription.
max_messages == 1

Subscribe ==
  /\ subscriber = "idle"
  /\ subscriber' = "running"
  /\ UNCHANGED <<attributes, pc, deliveries, acks, config, error, logged,
                 locals, github, repo_yaml, predictor,
                 calibrator>>

Outstanding == {m \in Msgs : pc[m] \in InCallback}

\* The subscriber invokes callback(message) while fewer than max_messages
\* messages are outstanding.  The callback starts by reading the four
\* attributes, outside of its try block: a missing attribute is a KeyError
\* that leaves the callback.
Deliver(m) ==
  /\ subscriber = "running"
  /\ pc[m] = "queued"
  /\ deliveries[m] < MaxDeliveries
  /\ Cardinality(Outstanding) < max_messages
  /\ deliveries' = [deliveries EXCEPT ![m] = @ + 1]
  /\ IF HasAllAttributes(m)
       THEN /\ pc' = [pc EXCEPT ![m] = "load_yaml"]
            /\ error' = [error EXCEPT ![m] = None]
       ELSE /\ pc' = [pc EXCEPT ![m] = "raised"]
            /\ error' = [error EXCEPT ![m] = Some("attributes")]
  /\ UNCHANGED <<subscriber, attributes, acks, config, logged, locals, github,
                 repo_yaml, predictor,
                 calibrator>>

\* A message that was not acknowledged is delivered again.
Redeliver(m) ==
  /\ pc[m] = "raised"
  /\ pc' = [pc EXCEPT ![m] = "queued"]
  /\ UNCHANGED <<subscriber, attributes, deliveries, acks, config, error,
                 logged, locals, github, repo_yaml, predictor,
                 calibrator>>

\* A step of the try block raises: control goes to the except clause.
Raise(m, origin) ==
  /\ pc' = [pc EXCEPT ![m] = "except"]
  /\ error' = [error EXCEPT ![m] = Some(origin)]

\* ------------------------------------------------------------- load_yaml
\* A load_yaml that logs a failure of RepoConfig and lets the callback go on.
LoadYamlContinuesOnFailure(m) ==
  /\ pc[m] = "load_yaml"
  /\ \/ config' = Some(RepoConfig(attributes[m]["repo_owner"],
                                  attributes[m]["repo_name"]))
     \/ UNCHANGED config
  /\ pc' = [pc EXCEPT ![m] = "download"]
  /\ UNCHANGED <<subscriber, attributes, deliveries, acks, error, logged,
                 locals, github, repo_yaml, predictor, calibrator>>

\* self.config = RepoConfig(repo_owner, repo_name), or the constructor raises.
LoadYaml(m) ==
  /\ pc[m] = "load_yaml"
  /\ \/ /\ config' = Some(RepoConfig(attributes[m]["repo_owner"],
                                     attributes[m]["repo_name"]))
        /\ pc' = [pc EXCEPT ![m] = "download"]
        /\ UNCHANGED error
     \/ /\ Raise(m, "load_yaml")
        /\ UNCHANGED config
  /\ UNCHANGED <<subscriber, attributes, deliveries, acks, logged, locals,
                 github, repo_yaml, predictor,
                 calibrator>>

\* ------------------------------------------------- download_model_from_gcs
\* The two downloads take their GCS paths and their local paths from
\* self.config; either of them can raise.
DownloadModelFromGcs(m) ==
  /\ pc[m] = "download"
  /\ \/ /\ downloaded' = [downloaded EXCEPT ![m] = config]
        /\ pc' = [pc EXCEPT ![m] = "predict"]
        /\ UNCHANGED error
     \/ /\ Raise(m, "download_model_from_gcs")
        /\ UNCHANGED downloaded
  /\ UNCHANGED <<subscriber, attributes, deliveries, acks, config, logged,
                 embedding_status, clf_invoked, label_probabilities,
                 label_thresholds, predictions, github, repo_yaml, predictor,
                 calibrator>>

\* --------------------------------------------------------- predict_labels
\* A check that only treats 404 as a missing embedding.
EmbeddingIsNoneOn404(status_code) == status_code = 404

\* get_issue_embedding: the embedding is None unless the status code is 200.
EmbeddingIsNone(status_code) == status_code # 200

\* Python truthiness of an optional number: None and 0 are falsy.
Truthy(o) == ~IsNone(o) /\ o[1] # 0

\* The condition of line 282 for label index i (0-based).
MeetsThreshold(thresholds, probabilities, i) ==
  /\ Truthy(thresholds[i])
  /\ probabilities[i + 1] >= thresholds[i][1]

\* The loop of predict_labels over range(len(label_probabilities)).
CheckThresholds(names, probabilities, thresholds) ==
  LET indices == [k \in 1..Len(probabilities) |-> k - 1]
      kept == SelectSeq(indices,
                LAMBDA i : MeetsThreshold(thresholds, probabilities, i))
  IN [labels |-> [k \in 1..Len(kept) |-> names[kept[k] + 1]],
      probabilities |-> [k \in 1..Len(kept) |-> probabilities[kept[k] + 1]]]

\* What predict_issue_probability returns for a status code and the vector
\* the classifier would produce.
IssueProbability(status_code, clf_output) ==
  IF EmbeddingIsNone(status_code) THEN <<>> ELSE clf_output

\* Line 270 of predict_labels: predict_issue_probability, which calls
\* get_issue_embedding and, when there is an embedding, the classifier.
PredictIssueProbability(m) ==
  /\ pc[m] = "predict"
  /\ \/ \* get_issue_text or requests.post raises
        /\ Raise(m, "get_issue_embedding")
        /\ UNCHANGED locals
     \/ \E status_code \in StatusCodes :
          /\ embedding_status' = [embedding_status EXCEPT ![m] = status_code]
          /\ clf_invoked' =
               [clf_invoked EXCEPT ![m] =
                  IF EmbeddingIsNone(status_code) THEN @ ELSE @ + 1]
          /\ \/ \* loading the model or predict_probabilities raises
                /\ ~EmbeddingIsNone(status_code)
                /\ Raise(m, "MLPWrapper")
                /\ UNCHANGED <<label_probabilities, label_thresholds,
                               predictions>>
             \/ \E clf_output \in ProbabilityVectors :
                  /\ EmbeddingIsNone(status_code) =>
                       clf_output = [i \in 1..NumLabels |-> 0]
                  /\ label_probabilities' =
                       [label_probabilities EXCEPT ![m] =
                          IssueProbability(status_code, clf_output)]
                  /\ pc' = [pc EXCEPT ![m] = "load_label_columns"]
                  /\ UNCHANGED <<error, label_thresholds, predictions>>
  /\ UNCHANGED <<subscriber, attributes, deliveries, acks, config, logged,
                 downloaded, github, repo_yaml, predictor, calibrator>>

\* Lines 273-284 of predict_labels: load_label_columns and the threshold
\* loop, the last reader of label_probabilities.
CheckLabelThresholds(m) ==
  /\ pc[m] = "load_label_columns"
  /\ label_probabilities' = [label_probabilities EXCEPT ![m] = <<>>]
  /\ \/ \* load_label_columns raises
        /\ Raise(m, "load_label_columns")
        /\ UNCHANGED <<label_thresholds, predictions>>
     \/ \E thresholds \in ThresholdTables :
          /\ label_thresholds' = [label_thresholds EXCEPT ![m] = thresholds]
          /\ predictions' =
               [predictions EXCEPT ![m] =
                  CheckThresholds(label_names, label_probabilities[m],
                                  thresholds)]
          /\ pc' = [pc EXCEPT ![m] = "return_predictions"]
          /\ UNCHANGED error
  /\ UNCHANGED <<subscriber, attributes, deliveries, acks, config, logged,
                 embedding_status, clf_invoked, downloaded, github, repo_yaml,
                 predictor, calibrator>>

\* Line 285: predict_labels returns the predictions to the callback.
PredictLabels(m) ==
  /\ pc[m] = "return_predictions"
  /\ label_thresholds' = [label_thresholds EXCEPT ![m] = <<>>]
  /\ pc' = [pc EXCEPT ![m] = "add_labels"]
  /\ UNCHANGED <<subscriber, attributes, deliveries, acks, config, error,
                 logged, embedding_status, clf_invoked, label_probabilities,
                 predictions, downloaded, github, repo_yaml, predictor,
                 calibrator>>

\* ------------------------------------------------ filter_specified_labels
LabelSet == {label_names[i] : i \in 1..NumLabels}

\* What get_yaml returns: None, or the mapping of the repo's YAML file,
\* with or without the key 'predicted-labels'.
YamlDicts ==
  {<<>>} \cup {[k \in {"predicted-labels"} |-> allowed] :
                 allowed \in SUBSET LabelSet}
YamlConfigs == {None} \cup {Some(d) : d \in YamlDicts}

\* yaml and 'predicted-labels' in yaml
HasPredictedLabels(yaml) ==
  /\ ~IsNone(yaml)
  /\ "predicted-labels" \in DOMAIN yaml[1]

\* A filter that keeps the allow-listed names and every probability.
FilterSpecifiedLabelsNamesOnly(yaml, preds) ==
  IF HasPredictedLabels(yaml)
    THEN << SelectSeq(preds.labels,
                      LAMBDA name : name \in yaml[1]["predicted-labels"]),
            preds.probabilities >>
    ELSE << preds.labels, preds.probabilities >>

\* Returns <<label_names, label_probabilities>>.
FilterSpecifiedLabels(yaml, preds) ==
  IF HasPredictedLabels(yaml)
    THEN LET positions == [k \in 1..Len(preds.labels) |-> k]
             kept == SelectSeq(positions,
                       LAMBDA k : preds.labels[k]
                                    \in yaml[1]["predicted-labels"])
         IN << [k \in 1..Len(kept) |-> preds.labels[kept[k]]],
               [k \in 1..Len(kept) |-> preds.probabilities[kept[k]]] >>
    ELSE << preds.labels, preds.probabilities >>

\* ---------------------------------------------------- add_labels_to_issue
\* A comment that is the low-confidence one whatever the labels.
CommentForLowConfidence(names, probabilities) ==
  [kind |-> "low_confidence", labels |-> <<>>, confidence |-> <<>>]

\* The comment that add_labels_to_issue creates for the filtered labels.
CommentFor(names, probabilities) ==
  IF names # <<>>
    THEN [kind |-> "labels", labels |-> names, confidence |-> probabilities]
    ELSE [kind |-> "low_confidence", labels |-> <<>>, confidence |-> <<>>]

AddLabelsToIssue(m) ==
  /\ pc[m] = "add_labels"
  /\ \E fetched \in YamlConfigs :
       LET preds == predictions[m]
           filtered == IF preds.labels # <<>>
                         THEN FilterSpecifiedLabels(fetched, preds)
                         ELSE << <<>>, <<>> >>
           names == filtered[1]
       IN \* filter_specified_labels is not called for an empty prediction,
          \* and what get_yaml returned is of no consequence when the call
          \* raises before anything is put on the issue.
          /\ preds.labels = <<>> => fetched = None
          /\ \/ \* get_yaml raises
                /\ preds.labels # <<>>
                /\ fetched = None
                /\ Raise(m, "get_yaml")
                /\ UNCHANGED <<github, repo_yaml>>
             \/ /\ fetched = None
                /\ Raise(m, "get_issue_handle")
                /\ UNCHANGED <<github, repo_yaml>>
             \/ \* issue.add_labels raises
                /\ names # <<>>
                /\ fetched = None
                /\ Raise(m, "add_labels")
                /\ UNCHANGED <<github, repo_yaml>>
             \/ \* issue.create_comment raises, after add_labels
                /\ Raise(m, "create_comment")
                /\ issue_labels' = [issue_labels EXCEPT ![m] = @ \o names]
                /\ repo_yaml' = [repo_yaml EXCEPT ![m] = fetched]
                /\ UNCHANGED comments
             \/ /\ issue_labels' = [issue_labels EXCEPT ![m] = @ \o names]
                /\ comments' =
                     [comments EXCEPT
                        ![m] = Append(@, CommentFor(names, filtered[2]))]
                /\ repo_yaml' = [repo_yaml EXCEPT ![m] = fetched]
                /\ pc' = [pc EXCEPT ![m] = "log"]
                /\ UNCHANGED error
  /\ UNCHANGED <<subscriber, attributes, deliveries, acks, config, logged,
                 locals, predictor, calibrator>>

\* ------------------------------------------------------ callback, the rest
\* Lines 135-141: the log record of the prediction; int(issue_num) raises a
\* ValueError when issue_num is not a number.
LogPrediction(m) ==
  /\ pc[m] = "log"
  /\ IF IsInt(attributes[m]["issue_num"])
       THEN /\ pc' = [pc EXCEPT ![m] = "acking"]
            /\ UNCHANGED error
       ELSE Raise(m, "int")
  /\ repo_yaml' = [repo_yaml EXCEPT ![m] = None]
  /\ UNCHANGED <<subscriber, attributes, deliveries, acks, config, logged,
                 locals, github, predictor, calibrator>>

\* An except clause that logs the error and raises it again.
HandleExceptionReraises(m) ==
  /\ pc[m] = "except"
  /\ logged' = [logged EXCEPT ![m] = @ + 1]
  /\ pc' = [pc EXCEPT ![m] = "raised"]
  /\ repo_yaml' = [repo_yaml EXCEPT ![m] = None]
  /\ UNCHANGED <<subscriber, attributes, deliveries, acks, config, error,
                 locals, github, predictor, calibrator>>

\* except Exception as e: the error is logged and the callback goes on.
HandleException(m) ==
  /\ pc[m] = "except"
  /\ logged' = [logged EXCEPT ![m] = @ + 1]
  /\ pc' = [pc EXCEPT ![m] = "acking"]
  /\ repo_yaml' = [repo_yaml EXCEPT ![m] = None]
  /\ UNCHANGED <<subscriber, attributes, deliveries, acks, config, error,
                 locals, github, predictor, calibrator>>

\* message.ack(), the last statement of the callback; its locals end here,
\* and so does the record of what this callback did to its issue.
Ack(m) ==
  /\ pc[m] = "acking"
  /\ acks' = [acks EXCEPT ![m] = @ + 1]
  /\ pc' = [pc EXCEPT ![m] = "done"]
  /\ error' = [error EXCEPT ![m] = None]
  /\ ClearLocals(m)
  /\ issue_labels' = [issue_labels EXCEPT ![m] = <<>>]
  /\ comments' = [comments EXCEPT ![m] = <<>>]
  /\ UNCHANGED <<subscriber, attributes, deliveries, config, logged,
                 repo_yaml, predictor,
                 calibrator>>

Next ==
  \/ Subscribe
  \/ \E m \in Msgs : Deliver(m)
  \/ \E m \in Msgs : Redeliver(m)
  \/ \E m \in Msgs : LoadYaml(m)
  \/ \E m \in Msgs : DownloadModelFromGcs(m)
  \/ \E m \in Msgs : PredictIssueProbability(m)
  \/ \E m \in Msgs : CheckLabelThresholds(m)
  \/ \E m \in Msgs : PredictLabels(m)
  \/ \E m \in Msgs : AddLabelsToIssue(m)
  \/ \E m \in Msgs : LogPrediction(m)
  \/ \E m \in Msgs : HandleException(m)
  \/ \E m \in Msgs : Ack(m)

Spec == Init /\ [][Next]_vars

\* =========================================================== properties
\* ----------------------------------------------------------------- C1
\* C1: a delivery that entered the try block of the callback is acknowledged
\* exactly once, whether the pipeline succeeded or one of load_yaml,
\* download_model_from_gcs, predict_labels, add_labels_to_issue raised:
\* message.ack() is never called before the end of the callback nor twice,
\* a callback that ended normally has called it once, and no failure of the
\* try block ends the callback without it.
AckExactlyOnce ==
  \A m \in Msgs :
    /\ acks[m] = (IF pc[m] = "done" THEN 1 ELSE 0)
    /\ pc[m] = "raised" => error[m] = Some("attributes")

\* Two acknowledged messages, one whose pipeline raised and one whose
\* pipeline did not.
AckedAfterFailureAndAfterSuccess ==
  \E m1, m2 \in Msgs :
    /\ pc[m1] = "done" /\ acks[m1] = 1 /\ logged[m1] = 1
    /\ pc[m2] = "done" /\ acks[m2] = 1 /\ logged[m2] = 0

\* ----------------------------------------------------------------- C2
\* C2: every exception between the delivery and the acknowledgment, the
\* extraction of the attributes included, is caught and logged: no callback
\* ends by raising, and a callback that is about to acknowledge after an
\* error has logged it.
AllErrorsCaught ==
  \A m \in Msgs :
    /\ pc[m] # "raised"
    /\ (pc[m] = "acking" /\ ~IsNone(error[m])) => logged[m] >= 1

\* ----------------------------------------------------------------- C3
\* C3: at most one message is between its delivery and its acknowledgment
\* at any time, so no callback starts while another one is still running.
AtMostOneInProcessing == Cardinality(Outstanding) <= 1

\* A second message is being processed after the first was acknowledged.
SecondAfterFirstAcked ==
  \E m1, m2 \in Msgs :
    /\ pc[m1] = "done" /\ acks[m1] = 1
    /\ pc[m2] \in {"predict", "load_label_columns", "add_labels"}

\* ----------------------------------------------------------------- C9
\* The labels the claim retains: index i is kept iff its threshold is
\* present and probability[i] >= threshold[i].
RetainedByPresentThreshold(names, probabilities, thresholds) ==
  LET indices == [k \in 1..Len(probabilities) |-> k - 1]
      kept == SelectSeq(indices,
                LAMBDA i : /\ ~IsNone(thresholds[i])
                           /\ probabilities[i + 1] >= thresholds[i][1])
  IN [labels |-> [k \in 1..Len(kept) |-> names[kept[k] + 1]],
      probabilities |-> [k \in 1..Len(kept) |-> probabilities[kept[k] + 1]]]

\* C9: the threshold loop of predict_labels retains label i, with its raw
\* probability, iff the threshold of i is present and probability[i] >=
\* threshold[i]; a present threshold of 0 retains the label.
RetainedIffMeetsPresentThreshold ==
  [][\A m \in Msgs :
       (pc[m] = "load_label_columns" /\ pc'[m] = "return_predictions") =>
         predictions'[m] =
           RetainedByPresentThreshold(label_names, label_probabilities[m],
                                      label_thresholds'[m])]_vars

\* ----------------------------------------------------------------- C10
\* C10: while a callback handles an issue whose embedding request was
\* answered with a status other than 200, the classifier has not been
\* invoked (so nothing is raised by it), the labels and the probabilities of
\* the prediction are empty, and no label has been added to the issue.
NoEmbeddingNoLabels ==
  \A m \in Msgs :
    embedding_status[m] \notin {0, 200} =>
      /\ clf_invoked[m] = 0
      /\ error[m] # Some("MLPWrapper")
      /\ label_probabilities[m] = <<>>
      /\ predictions[m] = EmptyPredictions
      /\ issue_labels[m] = <<>>

\* add_labels_to_issue has returned for an issue whose embedding request
\* was answered with 500.
CommentedWithoutEmbedding ==
  \E m \in Msgs :
    /\ embedding_status[m] = 500
    /\ pc[m] = "log"
    /\ Len(comments[m]) = 1
    /\ comments[m][1].kind = "low_confidence"

\* ----------------------------------------------------------------- C13
\* The positions of the prediction whose label the repo's YAML lets through:
\* all of them without the key 'predicted-labels', else those in its list.
LetThrough(m) ==
  {k \in 1..Len(predictions[m].labels) :
     HasPredictedLabels(repo_yaml[m]) =>
       predictions[m].labels[k] \in repo_yaml[m][1]["predicted-labels"]}

ProcessedWithoutError(m) ==
  pc[m] = "log" \/ (pc[m] = "acking" /\ IsNone(error[m]))

Idle == {"queued", "raised", "done"}
Processing == {"load_yaml", "download", "predict", "load_label_columns",
               "return_predictions", "add_labels", "log", "except"}

\* The order of the steps of one delivery.
StepOrder ==
  <<"load_yaml", "download", "predict", "load_label_columns",
    "return_predictions", "add_labels", "log", "except", "acking">>
StepNumber(p) == CHOOSE k \in 1..Len(StepOrder) : StepOrder[k] = p

\* C17: every delivery goes from Idle through Receiving into Processing,
\* from Processing to Acking and from Acking to Idle; within a delivery the
\* steps only go forward, so the prediction pipeline and the
\* labeling/comment action run at most once and the labeling/comment action
\* never runs after a step has raised; message.ack() is the last action
\* of the delivery, and once a delivery is over (failed or not) no message
\* is in the callback, so the next one is delivered.
DeliveryFollowsStateMachine ==
  [][\A m \in Msgs :
       pc'[m] # pc[m] =>
         /\ pc[m] \in Idle =>
              /\ deliveries'[m] = deliveries[m] + 1
              /\ pc'[m] \in Processing
         /\ pc[m] \in Processing =>
              /\ pc'[m] \in Processing \cup {"acking"}
              /\ StepNumber(pc'[m]) > StepNumber(pc[m])
              /\ pc'[m] = "add_labels" => IsNone(error'[m])
         /\ pc[m] = "acking" =>
              /\ pc'[m] = "done"
              /\ acks'[m] = acks[m] + 1
              /\ \A other \in Msgs : pc'[other] \in Idle]_vars

\* ----------------------------------------------------------------- C18
\* The RepoConfig of the message's own repo_owner/repo_name.
OwnConfig(m) ==
  Some(RepoConfig(attributes[m]["repo_owner"], attributes[m]["repo_name"]))

\* C18: whenever download_model_from_gcs, predict_labels (the classifier
\* on the model file) or load_label_columns is about to run or has run for
\* a message, self.config is the RepoConfig of that message's repo, and
\* from the download on the files at its local paths are the ones this
\* callback downloaded for that repo; a callback whose load_yaml failed
\* downloads nothing, invokes no classifier and has no prediction.
ConfigIsOfTheMessageHandled ==
  \A m \in Msgs :
    /\ pc[m] \in {"download", "predict", "load_label_columns",
                  "return_predictions"} =>
         config = OwnConfig(m)
    /\ pc[m] \in {"predict", "load_label_columns", "return_predictions"} =>
         downloaded[m] = OwnConfig(m)
    /\ clf_invoked[m] > 0 => downloaded[m] = OwnConfig(m)
    /\ error[m] = Some("load_yaml") =>
         /\ pc[m] \in {"except", "acking"}
         /\ IsNone(downloaded[m])
         /\ clf_invoked[m] = 0
         /\ predictions[m] = EmptyPredictions

\* Witness of C18: a message of another repo was handled and acknowledged
\* before, and the classifier has run for this message on files downloaded
\* under the configuration of this message's repo.
PredictedAfterAnotherRepo ==
  \E m, earlier \in Msgs :
    /\ pc[earlier] = "done"
    /\ HasAllAttributes(earlier)
    /\ HasAllAttributes(m)
    /\ attributes[earlier]["repo_name"] # attributes[m]["repo_name"]
    /\ pc[m] = "load_label_columns"
    /\ clf_invoked[m] = 1
    /\ config = OwnConfig(m)
    /\ downloaded[m] = OwnConfig(m)

\* ----------------------------------------- the predictor's entry points
PredictorInit ==
  /\ subscriber = "idle"
  /\ attributes = [m \in Msgs |-> FullAttributes("examples", "1")]
  /\ pc = [m \in Msgs |-> "queued"]
  /\ deliveries = [m \in Msgs |-> 0]
  /\ acks = [m \in Msgs |-> 0]
  /\ config = None
  /\ error = [m \in Msgs |-> None]
  /\ logged = [m \in Msgs |-> 0]
  /\ embedding_status = [m \in Msgs |-> 0]
  /\ clf_invoked = [m \in Msgs |-> 0]
  /\ label_probabilities = [m \in Msgs |-> <<>>]
  /\ label_thresholds = [m \in Msgs |-> <<>>]
  /\ predictions = [m \in Msgs |-> EmptyPredictions]
  /\ downloaded = [m \in Msgs |-> None]
  /\ issue_labels = [m \in Msgs |-> <<>>]
  /\ comments = [m \in Msgs |-> <<>>]
  /\ repo_yaml = [m \in Msgs |-> None]
  /\ models = LoadModels
  /\ request = NoRequest
  /\ response = NoResponse
  /\ mlp = None
  /\ calibration = None

Predict ==
  /\ request = NoRequest
  /\ \E data \in Payloads, outputs \in CollaboratorOutputs :
       /\ request' = [op |-> "predict", data |-> data, outputs |-> outputs]
       /\ response' = PredictResponse(data, outputs)
  /\ UNCHANGED <<models, worker, calibrator>>

CallPredictLabelsForIssue ==
  /\ request = NoRequest
  /\ \E data \in Payloads, outputs \in CollaboratorOutputs :
       /\ DOMAIN data \subseteq
            {"repo_owner", "repo_name", "issue_num", "model_name"}
       /\ DictHasKeys(data, issue_keys)
       /\ request' = [op |-> "predict_labels_for_issue", data |-> data,
                      outputs |-> outputs]
       /\ response' = PredictLabelsForIssue(data["repo_owner"],
                        data["repo_name"], data["issue_num"],
                        DictGet(data, "model_name"), outputs, "issue")
  /\ UNCHANGED <<models, worker, calibrator>>

CallPredictLabelsForDataDirectly ==
  /\ request = NoRequest
  /\ \E data \in Payloads, outputs \in CollaboratorOutputs :
       /\ DOMAIN data =
            {"model_name", "repo_owner", "repo_name", "title", "text"}
       /\ outputs.outcome # "get_issue_text raises"
       /\ request' = [op |-> "predict_labels_for_data", data |-> data,
                      outputs |-> outputs]
       /\ response' = CallPredictLabelsForData(
                        <<data["model_name"], data["repo_owner"],
                          data["repo_name"], data["title"], data["text"]>>,
                        outputs, "text")
  /\ UNCHANGED <<models, worker, calibrator>>

\* A return that drops the model of a call that failed from the registry.
ReturnDroppingFailedModel ==
  /\ request # NoRequest
  /\ request' = NoRequest
  /\ response' = NoResponse
  /\ models' =
       IF response.error = NoError
         THEN models
         ELSE [k \in {x \in DOMAIN models : Some(x) # response.model_name}
                 |-> models[k]]
  /\ UNCHANGED <<worker, calibrator>>

\* The caller has the response; the predictor is ready for the next call.
Return ==
  /\ request # NoRequest
  /\ request' = NoRequest
  /\ response' = NoResponse
  /\ UNCHANGED <<models, worker, calibrator>>

PredictorNext ==
  \/ Predict
  \/ CallPredictLabelsForIssue
  \/ CallPredictLabelsForDataDirectly
  \/ Return

PredictorSpec == PredictorInit /\ [][PredictorNext]_vars

\* =============================================== properties of the predictor
\* ----------------------------------------------------------------- C4
\* The key the claim selects for an issue of org/repo.
ClaimedModelKey(org, repo) ==
  IF (org \o "/" \o repo \o "_combined") \in DOMAIN models
    THEN org \o "/" \o repo \o "_combined"
  ELSE IF (org \o "_combined") \in DOMAIN models
    THEN org \o "_combined"
  ELSE "universal"

\* The request reached predict_labels_for_issue without a usable model_name.
IssueRequestWithoutOverride ==
  /\ request.op \in {"predict", "predict_labels_for_issue"}
  /\ response.path = "issue"
  /\ ~TruthyStr(DictGet(request.data, "model_name"))

\* C4: without a model override predict_labels_for_issue selects the key
\* "<org>/<repo>_combined" if registered, else "<org>_combined" if
\* registered, else "universal"; the key is in the registry and the call
\* never fails for a missing model.
ResolutionIsTotal ==
  IssueRequestWithoutOverride =>
    /\ response.model_name =
         Some(ClaimedModelKey(request.data["repo_owner"],
                              request.data["repo_name"]))
    /\ response.model_name[1] \in DOMAIN models
    /\ response.error.type # "ValueError"

\* An issue of the org with a model was served by the org's combined model.
ResolvedToOrgModel ==
  /\ IssueRequestWithoutOverride
  /\ request.data["repo_owner"] = "kubeflow"
  /\ request.data["repo_name"] = "examples"
  /\ response.model_name = Some("kubeflow_combined")
  /\ ~IsNone(response.result)

\* ----------------------------------------------------------------- C5
\* The request names a model key itself and the registry was consulted.
ExplicitKeyLookedUp ==
  /\ \/ request.op = "predict_labels_for_data"
     \/ /\ request.op \in {"predict", "predict_labels_for_issue"}
        /\ response.path = "issue"
        /\ TruthyStr(DictGet(request.data, "model_name"))
        /\ response.fetched
  /\ request.data["model_name"] \notin DOMAIN models

\* C5: an explicitly requested key that is not in the registry fails with
\* ValueError("No model named <key>") and no model is invoked (on the issue
\* path the registry is consulted once the issue text was fetched).
UnregisteredKeyIsModelNotFound ==
  ExplicitKeyLookedUp =>
    /\ response.error =
         Exception("ValueError",
                   "No model named " \o request.data["model_name"])
    /\ response.invoked = <<>>
    /\ IsNone(response.result)

\* The key "nope" was requested for an issue.
UnregisteredKeyRequestedForIssue ==
  /\ ExplicitKeyLookedUp
  /\ request.op = "predict_labels_for_issue"
  /\ request.data["model_name"] = "nope"
  /\ response.error.type = "ValueError"

\* ----------------------------------------------------------------- C6
\* C6: predict(payload) with title, text and model_name returns what
\* predict_labels_for_data returns for that model name, title and text;
\* otherwise, with repo_owner, repo_name and issue_num, it returns what
\* predict_labels_for_issue returns for them and the optional model_name.
PredictRoutesToBothPaths ==
  request.op = "predict" =>
    /\ {"title", "text", "model_name"} \subseteq DOMAIN request.data =>
         response =
           PredictLabelsForData(request.data["model_name"], "", "",
                                request.data["title"], request.data["text"],
                                request.outputs, "text", FALSE)
    /\ ( /\ ~({"title", "text", "model_name"} \subseteq DOMAIN request.data)
         /\ {"repo_owner", "repo_name", "issue_num"}
              \subseteq DOMAIN request.data ) =>
         response =
           PredictLabelsForIssue(request.data["repo_owner"],
                                 request.data["repo_name"],
                                 request.data["issue_num"],
                                 DictGet(request.data, "model_name"),
                                 request.outputs, "issue")

\* ----------------------------------------------------------------- C7
\* predict was called with neither field set complete.
IncompletePayload ==
  /\ request.op = "predict"
  /\ ~({"title", "text", "model_name"} \subseteq DOMAIN request.data)
  /\ ~({"repo_owner", "repo_name", "issue_num"} \subseteq DOMAIN request.data)

\* C7: predict(payload) with neither field set complete raises a ValueError
\* that names both accepted field sets, before any model is invoked or any
\* issue text is fetched.
IncompletePayloadIsMissingFields ==
  IncompletePayload =>
    /\ response.error =
         Exception("ValueError",
                   "Data is missing required keys; got "
                     \o Join(Keys(request.data))
                     \o "; want [title,text,model_name]"
                     \o " or [repo_owner,repo_name,issue_num]")
    /\ response.invoked = <<>>
    /\ ~response.fetched
    /\ IsNone(response.result)

\* A payload with some keys of each set was rejected.
PartialPayloadRejected ==
  /\ IncompletePayload
  /\ DOMAIN request.data = {"title", "model_name", "repo_owner", "issue_num"}
  /\ response.error.type = "ValueError"

\* ----------------------------------------------------------------- C8
\* The request was answered by the combined model of kubeflow.
AnsweredByCombinedModel ==
  /\ response.model_name = Some("kubeflow_combined")
  /\ ~IsNone(response.result)

RegistryKeys ==
  {"universal"}
    \cup {OrgsWithModels[i] : i \in 1..Len(OrgsWithModels)}
    \cup {OrgsWithModels[i] \o "_combined" : i \in 1..Len(OrgsWithModels)}

\* C15: the registry holds exactly the keys "universal", "<org>" and
\* "<org>_combined" of the configured orgs from construction on, and no
\* step of a call to predict, predict_labels_for_issue or
\* predict_labels_for_data, whether the call succeeds or fails, adds,
\* removes or replaces an entry.
RegistryOnlyFromConstruction ==
  [][/\ DOMAIN models = RegistryKeys
     /\ models' = models]_vars

\* Witness of C15: a call whose model raised has returned its error and
\* the registry is the one of construction.
FailedCallLeftRegistry ==
  /\ request.op = "predict_labels_for_issue"
  /\ request.outputs.outcome = "model raises"
  /\ response.error # NoError
  /\ ~IsNone(response.model_name)
  /\ models = LoadModels

\* ================================================================ mlp.py
\* MLPWrapper.find_probability_thresholds.  A float that is a ratio of two
\* counts is the pair <<numerator, denominator>> in lowest terms, so that
\* equal ratios are one value as they are one float; two such floats are
\* compared by cross-multiplication, which is what the division of two
\* integers in IEEE arithmetic preserves.  A ratio with denominator 0 is nan.
RECURSIVE GCD(_, _)
GCD(a, b) == IF b = 0 THEN a ELSE GCD(b, a % b)

Ratio(a, b) ==
  IF b = 0 THEN <<0, 0>> ELSE <<a \div GCD(a, b), b \div GCD(a, b)>>
Zero == Ratio(0, 1)
IsNan(x) == x[2] = 0

\* x >= y and x > y on floats: every comparison with nan is False.
GreaterEqual(x, y) == ~IsNan(x) /\ ~IsNan(y) /\ x[1] * y[2] >= y[1] * x[2]
Greater(x, y) == ~IsNan(x) /\ ~IsNan(y) /\ x[1] * y[2] > y[1] * x[2]
SameFloat(x, y) == ~IsNan(x) /\ ~IsNan(y) /\ x[1] * y[2] = y[1] * x[2]

\* The floors given to the constructor: the defaults 0.7 and 0.5, a lower
\* precision floor, and no precision floor at all.
PrecisionFloors == {Ratio(7, 10), Ratio(1, 2), Zero}
RecallFloors == {Ratio(1, 2)}

\* One label's column of the held-out partition, np.array(y_test)[:, label]
\* with y_pred[:, label], up to the order of its rows: how many rows have
\* the true value y (0 or 1) and the predicted probability s.
Cells == {0, 1} \X ProbValues

RECURSIVE SumFrom(_, _, _)
SumFrom(column, y, s) ==
  IF s > MaxProb THEN 0 ELSE column[<<y, s>>] + SumFrom(column, y, s + 1)

\* The ways to put n rows into the given cells.
RECURSIVE Distribute(_, _)
Distribute(cells, n) ==
  IF cells = {}
    THEN IF n = 0 THEN {<<>>} ELSE {}
    ELSE LET cell == CHOOSE c \in cells : TRUE
         IN UNION {{Put(column, cell, k) :
                      column \in Distribute(cells \ {cell}, n - k)} :
                   k \in 0..n}

Columns(n) == Distribute(Cells, n)

\* ------------------------------------------- sklearn precision_recall_curve
\* The rows predicted positive at threshold t are those with probability
\* >= t; tps and fps count the true and the false ones among them.
TruePositives(column, t) == SumFrom(column, 1, t)
FalsePositives(column, t) == SumFrom(column, 0, t)
Positives(column) == SumFrom(column, 1, 0)

PrecisionAt(column, t) ==
  Ratio(TruePositives(column, t),
        TruePositives(column, t) + FalsePositives(column, t))

\* tps / tps[-1]: with no positive row the library divides 0 by 0 (nan) or,
\* in its later releases, sets the recall to one.
RecallAt(column, t, recall_is_one) ==
  IF Positives(column) = 0
    THEN IF recall_is_one THEN Ratio(1, 1) ELSE Ratio(0, 0)
    ELSE Ratio(TruePositives(column, t), Positives(column))

\* The distinct probabilities that occur in the column.
DistinctScores(column) ==
  {s \in ProbValues : column[<<0, s>>] + column[<<1, s>>] > 0}

RECURSIVE Increasing(_)
Increasing(S) ==
  IF S = {} THEN <<>>
  ELSE LET least == CHOOSE s \in S : \A t \in S : s <= t
       IN <<least>> \o Increasing(S \ {least})

\* The thresholds the curve returns, in increasing order: every distinct
\* probability or, in the releases that stop once full recall is attained,
\* those from the highest threshold with full recall upwards.
CurveThresholds(column, stops_at_full_recall) ==
  LET full == {t \in DistinctScores(column) :
                 TruePositives(column, t) = Positives(column)}
      first == CHOOSE t \in full : \A u \in full : u <= t
  IN Increasing({t \in DistinctScores(column) :
                   stops_at_full_recall => t >= first})

\* zip(precision[:-1], recall[:-1], threshold)
PrecisionRecallCurve(column, library) ==
  LET thresholds == CurveThresholds(column, library.stops_at_full_recall)
  IN [k \in 1..Len(thresholds) |->
        [prec |-> PrecisionAt(column, thresholds[k]),
         reca |-> RecallAt(column, thresholds[k], library.recall_is_one),
         thre |-> thresholds[k]]]

\* The releases of the library that can be installed: whether the curve
\* stops once full recall is attained, and what the recall of a column
\* without positive rows is.
Libraries == [stops_at_full_recall : BOOLEAN, recall_is_one : BOOLEAN]

\* ---------------------------------------------- find_probability_thresholds
\* A test that accepts a candidate meeting one of the two floors.
MeetsEitherFloor(prec, reca, precision_floor, recall_floor) ==
  GreaterEqual(prec, precision_floor) \/ GreaterEqual(reca, recall_floor)

\* prec >= self.precision_threshold and reca >= self.recall_threshold
MeetsBothFloors(prec, reca, precision_floor, recall_floor) ==
  GreaterEqual(prec, precision_floor) /\ GreaterEqual(reca, recall_floor)

\* A test that lets a later candidate of equal precision replace the best.
ImprovesOrTies(prec, best_precision) == GreaterEqual(prec, best_precision)

\* prec > best_precision
Improves(prec, best_precision) == Greater(prec, best_precision)

\* A start of the search that has a threshold of zero already.
InitialBestZero ==
  [best_precision |-> Zero, best_recall |-> Zero, best_threshold |-> Some(0)]

\* best_precision, best_recall, best_threshold = 0.0, 0.0, None
InitialBest ==
  [best_precision |-> Zero, best_recall |-> Zero, best_threshold |-> None]

\* The loop over the curve, from its candidate k on.
RECURSIVE BestCandidate(_, _, _, _, _)
BestCandidate(curve, k, best, precision_floor, recall_floor) ==
  IF k > Len(curve) THEN best
  ELSE LET c == curve[k]
           better ==
             /\ MeetsBothFloors(c.prec, c.reca, precision_floor, recall_floor)
             /\ Improves(c.prec, best.best_precision)
       IN BestCandidate(curve, k + 1,
            IF better
              THEN [best_precision |-> c.prec, best_recall |-> c.reca,
                    best_threshold |-> Some(c.thre)]
              ELSE best,
            precision_floor, recall_floor)

\* MLPWrapper(clf, precision_threshold=..., recall_threshold=...)
MLPWrapper(precision_floor, recall_floor) ==
  [precision_threshold |-> precision_floor,
   recall_threshold |-> recall_floor,
   probability_thresholds |-> <<>>, precisions |-> <<>>, recalls |-> <<>>,
   total_labels_count |-> None]

NoColumn == [c \in Cells |-> 0]

CalibratorInit ==
  /\ subscriber = "idle"
  /\ attributes = [m \in Msgs |-> FullAttributes("examples", "1")]
  /\ pc = [m \in Msgs |-> "queued"]
  /\ deliveries = [m \in Msgs |-> 0]
  /\ acks = [m \in Msgs |-> 0]
  /\ config = None
  /\ error = [m \in Msgs |-> None]
  /\ logged = [m \in Msgs |-> 0]
  /\ embedding_status = [m \in Msgs |-> 0]
  /\ clf_invoked = [m \in Msgs |-> 0]
  /\ label_probabilities = [m \in Msgs |-> <<>>]
  /\ label_thresholds = [m \in Msgs |-> <<>>]
  /\ predictions = [m \in Msgs |-> EmptyPredictions]
  /\ downloaded = [m \in Msgs |-> None]
  /\ issue_labels = [m \in Msgs |-> <<>>]
  /\ comments = [m \in Msgs |-> <<>>]
  /\ repo_yaml = [m \in Msgs |-> None]
  /\ models = <<>>
  /\ request = NoRequest
  /\ response = NoResponse
  /\ \E precision_floor \in PrecisionFloors, recall_floor \in RecallFloors :
       mlp = MLPWrapper(precision_floor, recall_floor)
  /\ \E n \in 1..MaxSamples, library \in Libraries :
       calibration = [at |-> "called", rows |-> n, library |-> library,
                      label |-> 0, column |-> NoColumn, curve |-> <<>>]

\* Lines 65-72: the split, the fit and the predictions for the held-out
\* rows, then the three empty tables and the number of labels of a row.
\* The columns of the held-out partition are fixed here; the model draws
\* each of them when the loop comes to its label.
SplitAndFit ==
  /\ calibration.at = "called"
  /\ mlp' = [mlp EXCEPT !.probability_thresholds = <<>>,
                        !.precisions = <<>>, !.recalls = <<>>,
                        !.total_labels_count = NumLabels]
  /\ calibration' = [calibration EXCEPT !.at = "loop", !.label = 0]
  /\ UNCHANGED <<worker, predictor>>

\* Lines 73-91: the body of "for label in range(total_labels_count)" for
\* the current label.
CalibrateLabel ==
  /\ calibration.at = "loop"
  /\ calibration.label < mlp.total_labels_count
  /\ \E column \in Columns(calibration.rows) :
       LET label == calibration.label
           curve == PrecisionRecallCurve(column, calibration.library)
           best == BestCandidate(curve, 1, InitialBest,
                     mlp.precision_threshold, mlp.recall_threshold)
       IN /\ mlp' = [mlp EXCEPT
                       !.probability_thresholds =
                          Put(@, label, best.best_threshold),
                       !.precisions = Put(@, label, best.best_precision),
                       !.recalls = Put(@, label, best.best_recall)]
          /\ calibration' = [calibration EXCEPT !.at = "calibrated",
                               !.column = column, !.curve = curve]
  /\ UNCHANGED <<worker, predictor>>

\* The loop goes on to the next label; the locals of the body are rebound.
NextLabel ==
  /\ calibration.at = "calibrated"
  /\ calibration' = [calibration EXCEPT !.at = "loop", !.label = @ + 1,
                       !.column = NoColumn, !.curve = <<>>]
  /\ UNCHANGED <<mlp, worker, predictor>>

\* The loop is over: find_probability_thresholds returns.
ReturnThresholds ==
  /\ calibration.at = "loop"
  /\ calibration.label = mlp.total_labels_count
  /\ calibration' = [calibration EXCEPT !.at = "returned"]
  /\ UNCHANGED <<mlp, worker, predictor>>

CalibratorNext ==
  \/ SplitAndFit
  \/ CalibrateLabel
  \/ NextLabel
  \/ ReturnThresholds

CalibratorSpec == CalibratorInit /\ [][CalibratorNext]_vars

\* ============================================== properties of the calibrator
\* The label whose column the loop has just been through.
Calibrated == calibration.at = "calibrated"
LastLabel == calibration.label

\* Precision and recall of "positive iff probability >= t" on the column,
\* counted from the rows.
AchievedPrecision(t) ==
  Ratio(TruePositives(calibration.column, t),
        TruePositives(calibration.column, t)
          + FalsePositives(calibration.column, t))
AchievedRecall(t) ==
  Ratio(TruePositives(calibration.column, t), Positives(calibration.column))

\* ----------------------------------------------------------------- C11
\* C11: after the loop has calibrated a label, if the label's entry of
\* probability_thresholds is not None then predicting positive iff
\* probability >= that threshold on the same held-out column has precision
\* >= precision_threshold and recall >= recall_threshold, and the label's
\* entries of precisions and recalls are the precision and the recall
\* achieved at that threshold.
ThresholdMeetsBothFloors ==
  Calibrated =>
    LET chosen == mlp.probability_thresholds[LastLabel]
    IN ~IsNone(chosen) =>
         /\ GreaterEqual(AchievedPrecision(chosen[1]), mlp.precision_threshold)
         /\ GreaterEqual(AchievedRecall(chosen[1]), mlp.recall_threshold)
         /\ SameFloat(mlp.precisions[LastLabel], AchievedPrecision(chosen[1]))
         /\ SameFloat(mlp.recalls[LastLabel], AchievedRecall(chosen[1]))

\* Witness of C11: a threshold above the lowest probability was chosen for
\* a label that has false positives at it, so the recorded precision is
\* below 1 and still meets the floor.
ThresholdChosenWithFalsePositives ==
  /\ Calibrated
  /\ ~IsNone(mlp.probability_thresholds[LastLabel])
  /\ mlp.probability_thresholds[LastLabel][1] > 0
  /\ FalsePositives(calibration.column,
                    mlp.probability_thresholds[LastLabel][1]) > 0

\* The candidates of the label just calibrated: the points of its curve
\* that meet both floors.
Candidates ==
  {k \in 1..Len(calibration.curve) :
     MeetsBothFloors(calibration.curve[k].prec, calibration.curve[k].reca,
                     mlp.precision_threshold, mlp.recall_threshold)}

\* ----------------------------------------------------------------- C12
\* C12: when the loop calibrates a label and no point of the label's curve
\* meets both floors, or the label has no positive row in the held-out
\* data, the label's entry of probability_thresholds is None (not zero, not
\* any other value); and calibrating a label adds that label's entries and
\* leaves the entries of every other label as they were.
AbsentWithoutCandidate ==
  [][(calibration.at = "loop" /\ calibration'.at = "calibrated") =>
       LET label == calibration.label
           curve == calibration'.curve
           none_meets ==
             \A k \in 1..Len(curve) :
               ~MeetsBothFloors(curve[k].prec, curve[k].reca,
                                mlp.precision_threshold, mlp.recall_threshold)
       IN /\ (none_meets \/ Positives(calibration'.column) = 0) =>
               IsNone(mlp'.probability_thresholds[label])
          /\ DOMAIN mlp'.probability_thresholds
               = DOMAIN mlp.probability_thresholds \cup {label}
          /\ \A other \in DOMAIN mlp.probability_thresholds :
               /\ mlp'.probability_thresholds[other]
                    = mlp.probability_thresholds[other]
               /\ mlp'.precisions[other] = mlp.precisions[other]
               /\ mlp'.recalls[other] = mlp.recalls[other]]_vars

\* Witness of C12: the second label has no positive row, the library gave
\* it a curve of recall one, and its threshold is None next to the first
\* label's threshold, which is present.
AbsentNextToPresent ==
  /\ Calibrated
  /\ LastLabel = 1
  /\ Positives(calibration.column) = 0
  /\ \E k \in 1..Len(calibration.curve) :
       calibration.curve[k].reca = Ratio(1, 1)
  /\ IsNone(mlp.probability_thresholds[1])
  /\ ~IsNone(mlp.probability_thresholds[0])

\* ----------------------------------------------------------------- C16
\* The candidates of maximum precision.
MaxPrecisionCandidates ==
  {k \in Candidates :
     \A j \in Candidates :
       GreaterEqual(calibration.curve[k].prec, calibration.curve[j].prec)}

\* C16 as stated: whenever at least one point of the label's curve meets
\* both floors, a threshold is chosen for the label, it has the maximum
\* precision among the points meeting both floors, and among the points of
\* that precision it is the first in decreasing order of threshold, the
\* highest threshold.
TiesKeepHighestThreshold ==
  (Calibrated /\ Candidates # {}) =>
    LET chosen == mlp.probability_thresholds[LastLabel]
    IN /\ ~IsNone(chosen)
       /\ \E k \in MaxPrecisionCandidates :
            /\ calibration.curve[k].thre = chosen[1]
            /\ \A j \in MaxPrecisionCandidates :
                 calibration.curve[j].thre <= chosen[1]

\* C16 amended: whenever at least one point of the label's curve meets both
\* floors with a precision above zero, a threshold is chosen for the label,
\* it has the maximum precision among the points meeting both floors, and
\* among the points of that precision it is the first in increasing order
\* of threshold (decreasing recall), the lowest threshold.
TiesKeepLowestThreshold ==
  (/\ Calibrated
   /\ \E k \in Candidates : Greater(calibration.curve[k].prec, Zero)) =>
    LET chosen == mlp.probability_thresholds[LastLabel]
    IN /\ ~IsNone(chosen)
       /\ \E k \in MaxPrecisionCandidates :
            /\ calibration.curve[k].thre = chosen[1]
            /\ SameFloat(mlp.precisions[LastLabel], calibration.curve[k].prec)
            /\ \A j \in MaxPrecisionCandidates :
                 calibration.curve[j].thre >= chosen[1]

\* Witness of C16: two points of the curve meet both floors with the same,
\* maximum precision, and the lower of the two thresholds is chosen.
TieBetweenTwoCandidates ==
  /\ Calibrated
  /\ \E k, j \in MaxPrecisionCandidates :
       /\ calibration.curve[k].thre < calibration.curve[j].thre
       /\ mlp.probability_thresholds[LastLabel]
            = Some(calibration.curve[k].thre)

====
